---- MODULE Spec2Model ----
(***************************************************************************)
(* Agent coordination and estimation loop of coop_cov (src/auv_agent.py):  *)
(* Agent.update, Agent.communicate and RunnableMission.run.                *)
(*                                                                         *)
(* Lengths are integers in units of half a metre (the 0.5 of lines 159,    *)
(* 169 and 444 is one unit); distances are compared by their squares.      *)
(* Headings are quarter turns: 0 = +x, 1 = +y, 2 = -x, 3 = -y.             *)
(* Times are whole seconds.                                                *)
(***************************************************************************)
EXTENDS Integers, Sequences, FiniteSets, TLC

\* ------------------------------------------------------------------ bounds
\* seeds 0..MaxSeed are tried for np.random.seed
MaxSeed == 1
\* tick lengths 1..MaxDt are tried for RunnableMission.dt
MaxDt == 2

\* ------------------------------------------------------- program constants
\* the 0.5 m margin of the straight-steering test, the sampling step of the
\* planned path and the start offset behind the first waypoint: the unit
Half == 1
Metre == 2 * Half
\* target_threshold = 2 (metres), given to every AUV
TargetThreshold == 2 * Metre

FIRST == "first"
MIDDLE == "middle"
LAST == "last"

\* the rendezvous-eligible pattern indices of Agent.update
RendezvousIdx == {1, 3, 5}

\* ----------------------------------------------------------------- helpers
Abs(n) == IF n < 0 THEN -n ELSE n

Pose(x, y, h) == [x |-> x, y |-> y, h |-> h]

\* geom.euclid_distance, squared
Dist2(p, q) == (p.x - q.x) * (p.x - q.x) + (p.y - q.y) * (p.y - q.y)

\* cos and sin of a heading given in quarter turns
Cos(h) == CASE h % 4 = 0 -> 1 [] h % 4 = 2 -> -1 [] OTHER -> 0
Sin(h) == CASE h % 4 = 1 -> 1 [] h % 4 = 3 -> -1 [] OTHER -> 0

\* heading of the straight line from p to t (the nearest quarter turn)
DirToward(p, t) ==
    LET dx == t.x - p.x
        dy == t.y - p.y
    IN  IF Abs(dx) >= Abs(dy)
        THEN (IF dx >= 0 THEN 0 ELSE 2)
        ELSE (IF dy >= 0 THEN 1 ELSE 3)

\* ------------------------------------------------------------ mission plan
Wp(x, y, h, t, idx, pil, ur) ==
    [pose |-> Pose(x, y, h), time |-> t, idx_in_pattern |-> idx,
     position_in_line |-> pil, uncertainty_radius |-> ur,
     rendezvous_happened |-> FALSE]

\* The timed paths of the plans tried, one sequence of waypoints per agent.
\* pass:  two lanes 12 apart, travelled in opposite directions
\* meet:  both agents line up at neighbouring waypoints and wait there
\* short: agent 1 has a single waypoint and is exhausted early
\* now:   one waypoint each, due at time 0: the last planned time is 0
TimedPaths(plan) ==
    CASE plan = "now" ->
           <<  << Wp(1, 0, 0, 0, 0, LAST, 4) >>,
               << Wp(17, 12, 2, 0, 0, LAST, 4) >> >>
      [] plan = "pass" ->
           <<  << Wp(1, 0, 0, 0, 0, FIRST, 4), Wp(17, 0, 0, 6, 1, LAST, 4) >>,
               << Wp(17, 12, 2, 0, 0, FIRST, 4), Wp(1, 12, 2, 6, 1, LAST, 4) >> >>
      [] plan = "meet" ->
           <<  << Wp(1, 0, 0, 0, 0, FIRST, 4), Wp(9, 0, 0, 6, 1, MIDDLE, 6),
                  Wp(9, 8, 1, 8, 2, LAST, 4) >>,
               << Wp(17, 2, 2, 0, 1, FIRST, 4), Wp(11, 2, 2, 6, 2, MIDDLE, 6),
                  Wp(11, 10, 1, 8, 3, LAST, 4) >> >>
      [] OTHER ->
           <<  << Wp(1, 0, 0, 0, 0, FIRST, 4), Wp(9, 0, 0, 8, 1, LAST, 4) >>,
               << Wp(5, 4, 0, 1, 0, LAST, 4) >> >>

Plans == {"pass", "meet", "short", "now"}

\* mission agents are numbered from 0 (enumerate(mplan.timed_paths))
NumAgents == 2
AgentIds == 0 .. (NumAgents - 1)
\* landmark agents get negative ids (-i-1)
LandmarkId(i) == 0 - i - 1

\* ------------------------------------------------------------------- state
VARIABLES
    cfg,    \* mplan.config, dt, seed, drift model, landmark positions
    mp,     \* the shared MissionPlan: waypoints (with flags) and cursors
    ag,     \* the agents, by id: mission agents and landmarks
    rng,    \* state of the process-wide numpy random generator
    step,   \* run's step counter
    pc,     \* run's position: "top", "update", "communicate", "check", "done",
            \* then "complete" or "raised" after calculate_stats
    i,      \* index into agents of the for loop in progress (1-based)
    ev,     \* what the last call did (locals of the call, for observation)
    results \* self.results and self.all_translational_errs of RunnableMission

vars == << cfg, mp, ag, rng, step, pc, i, ev, results >>

\* self.agents and self.landmarks of RunnableMission, as lists of ids
agents == [j \in 1 .. NumAgents |-> j - 1]
landmarks == [j \in 1 .. Len(cfg.landmarks) |-> LandmarkId(j - 1)]

\* ------------------------------------------------- MissionPlan (interface)
NoWp == 0

\* get_current_wp: the index of the agent's current waypoint, NoWp for none
get_current_wp(m, id) ==
    IF m.cursor[id] >= 1 /\ m.cursor[id] <= Len(m.wps[id]) THEN m.cursor[id] ELSE NoWp

\* visit_current_wp: advance the agent's cursor by one
visit_current_wp(m, id) ==
    [m EXCEPT !.cursor[id] = IF @ <= Len(m.wps[id]) THEN @ + 1 ELSE @]

is_complete(m) == \A id \in AgentIds : m.cursor[id] > Len(m.wps[id])

RECURSIVE MaxTime(_)
MaxTime(ws) == IF ws = << >> THEN 0
               ELSE LET r == MaxTime(Tail(ws))
                    IN  IF Head(ws).time > r THEN Head(ws).time ELSE r

last_planned_time(m) ==
    LET t0 == MaxTime(m.wps[0])
        t1 == MaxTime(m.wps[1])
    IN  IF t0 > t1 THEN t0 ELSE t1

\* ----------------------------------------------------------- AUV (interface)
\* AUV.set_target followed by AUV.update(dt) on the belief vehicle: turn to the
\* target and move forward speed*dt, unless the target is within the threshold.
\* Gives the new pose, the distance moved and the turn made.
AuvUpdate(pose, target, speed, dt) ==
    IF speed = 0 \/ Dist2(pose, target) <= TargetThreshold * TargetThreshold
    THEN [pose |-> pose, moved |-> 0, turn |-> 0]
    ELSE LET h == DirToward(pose, target)
             d == speed * dt
         IN  [pose |-> Pose(pose.x + d * Cos(h), pose.y + d * Sin(h), h),
              moved |-> d, turn |-> (h - pose.h) % 4]

\* AUV.update(dt, turn_direction, turn_amount, drift_x, drift_y, ...) on the
\* real vehicle: the same turn and distance from its own heading, plus drift.
RealAuvUpdate(pose, turn, moved, drift_x, drift_y) ==
    LET h == (pose.h + turn) % 4
    IN  Pose(pose.x + moved * Cos(h) + drift_x, pose.y + moved * Sin(h) + drift_y, h)

\* -------------------------------------------------- path planner (interface)
\* dubins.shortest_path(...): the points of the path from p to q at every
\* 0.5 m of its length, both ends included.
RECURSIVE SamplePath(_, _, _)
SamplePath(p, q, fuel) ==
    IF fuel = 0 \/ (p.x = q.x /\ p.y = q.y) THEN << q >>
    ELSE LET h == DirToward(p, q)
         IN  << p >> \o SamplePath(Pose(p.x + Half * Cos(h), p.y + Half * Sin(h), h), q, fuel - 1)

\* path.sample_many(0.5): the samples taken from the start of the path at
\* every 0.5 m short of its length. The last sample is the end of the path,
\* or (short) the point one step before it.
sample_many(p, q, short) ==
    LET pts == SamplePath(p, q, 64)
    IN  IF short /\ Len(pts) > 1 THEN SubSeq(pts, 1, Len(pts) - 1) ELSE pts

\* --------------------------------------------------- drift model (interface)
\* DriftModel.sample(x, y): the drift angle at a position, a fixed field
DriftSample(x, y) == (x + y + cfg.field) % 4

\* np.random.random(): the generator's next state and the draw made from it,
\* (random*2 - 1) as one of -1, 0, 1
RngNext(r) == (5 * r + 3) % 8
RngDraw(r) == (RngNext(r) % 3) - 1

\* ------------------------------------------------------------ Agent.update
\* the observation record of a call, before the call has done anything
EvNone(op, id) ==
    [op |-> op, agent |-> id, returned |-> "", wp0 |-> NoWp, wp |-> NoWp,
     at_target |-> FALSE, advanced |-> FALSE, waited |-> FALSE, dist2 |-> 0,
     planned |-> FALSE, target |-> Pose(0, 0, 0), cover |-> FALSE,
     alone |-> TRUE, no_landmarks |-> TRUE, moved |-> 0,
     drift_x |-> 0, drift_y |-> 0, heading_noise |-> 0,
     recorded |-> FALSE, flagged |-> FALSE, optimized |-> FALSE, success |-> FALSE]

\* (mutant) the rendezvous flag counts at every pattern index
RendezvousHappened_AnyIndex(w) == w.rendezvous_happened

\* rendezvous_happened of the mission sync: the flag counts at pattern
\* indices 1, 3 and 5 only
RendezvousHappened(w) ==
    w.rendezvous_happened /\ w.idx_in_pattern \in RendezvousIdx

\* (mutant) a rendezvous does not let the agent leave before the time
LeaveWaypoint_TimeOnly(wp_time_reached, rendezvous_happened) == wp_time_reached

\* whether the waypoint the agent is at is left this tick
LeaveWaypoint(wp_time_reached, rendezvous_happened) ==
    wp_time_reached \/ rendezvous_happened

\* (mutant) the waypoint after the next becomes current
NextWp_Twice(m, id) == visit_current_wp(visit_current_wp(m, id), id)

\* the agent leaves the waypoint it has reached: the next one becomes current
NextWp(m, id) == visit_current_wp(m, id)

\* MISSION SYNC of update: the agent, the plan, the waypoint now current
\* (NoWp: the agent is done) and the distance the path planning will use
MissionSync(self, m) ==
    LET id == self.id
        c0 == get_current_wp(m, id)
    IN  IF c0 = NoWp
        THEN LET m1 == visit_current_wp(m, id)
                 c1 == get_current_wp(m1, id)
             IN  [self |-> self, mp |-> m1, wp0 |-> c0, wp |-> c1,
                  dist2 |-> IF c1 = NoWp THEN 0
                            ELSE Dist2(self.internal, m1.wps[id][c1].pose),
                  at_target |-> FALSE, advanced |-> FALSE, waited |-> FALSE]
        ELSE LET w == m.wps[id][c0]
                 dist2 == Dist2(self.internal, w.pose)
                 at_target == dist2 <= TargetThreshold * TargetThreshold
                 rendezvous_happened == RendezvousHappened(w)
                 reached == [self EXCEPT !.waypoint_reaching_times =
                                Append(@, << self.time, self.time - w.time >>)]
                 wp_time_reached == self.time >= w.time
             IN  IF ~at_target
                 THEN [self |-> self, mp |-> m, wp0 |-> c0, wp |-> c0, dist2 |-> dist2,
                       at_target |-> FALSE, advanced |-> FALSE, waited |-> FALSE]
                 ELSE IF LeaveWaypoint(wp_time_reached, rendezvous_happened)
                 THEN LET m1 == NextWp(m, id)
                      IN  [self |-> [reached EXCEPT !.current_dubins_points = << >>],
                           mp |-> m1, wp0 |-> c0, wp |-> get_current_wp(m1, id),
                           dist2 |-> dist2,
                           at_target |-> TRUE, advanced |-> TRUE, waited |-> FALSE]
                 ELSE [self |-> [reached EXCEPT !.viz_waited_points =
                                    Append(@, self.internal)],
                       mp |-> m, wp0 |-> c0, wp |-> c0, dist2 |-> dist2,
                       at_target |-> TRUE, advanced |-> FALSE, waited |-> TRUE]

\* (mutant) every pass drops one more lead sample, near or not
DropClose_One(pose, pts) == IF Len(pts) > 1 THEN Tail(pts) ELSE pts

\* the while loop of the path planning: drop the lead samples within the
\* threshold, but never the last one
RECURSIVE DropClose(_, _)
DropClose(pose, pts) ==
    IF Dist2(pose, pts[1]) <= TargetThreshold * TargetThreshold /\ Len(pts) > 1
    THEN DropClose(pose, Tail(pts))
    ELSE pts

\* PATH PLANNING of update: the agent (its queued path) and the point steered at
PathPlanning(self, w, dist2, short) ==
    IF dist2 < (TargetThreshold + Half) * (TargetThreshold + Half)
    THEN [self |-> self, target |-> w.pose, planned |-> FALSE]
    ELSE LET plan == Len(self.current_dubins_points) = 0
             pts == IF plan THEN sample_many(self.internal, w.pose, short)
                    ELSE self.current_dubins_points
             left == DropClose(self.internal, pts)
         IN  [self |-> [self EXCEPT !.current_dubins_points = left,
                                    !.viz_plan_points =
                                        IF plan THEN Append(@, self.internal) ELSE @],
              target |-> left[1], planned |-> plan]

\* (mutant) one limit for every peer, the communication range
Lim_CommOnly(other) == cfg.comm_range

\* the limit that applies to a peer: landmark_range for a landmark,
\* comm_range for a mission agent
Lim(other) == IF other.is_landmark THEN cfg.landmark_range ELSE cfg.comm_range

\* (mutant) any agent within its limit, a landmark too, ends alone
RECURSIVE Scan_AnyPeer(_, _, _, _)
Scan_AnyPeer(self, ids, alone, no_landmarks) ==
    IF ids = << >> THEN << alone, no_landmarks >>
    ELSE LET other == ag[Head(ids)]
             near == Dist2(self.real, other.real) <= Lim(other) * Lim(other)
         IN  IF other.id = self.id THEN Scan_AnyPeer(self, Tail(ids), alone, no_landmarks)
             ELSE IF near /\ other.is_landmark THEN Scan_AnyPeer(self, Tail(ids), FALSE, FALSE)
             ELSE IF near THEN Scan_AnyPeer(self, Tail(ids), FALSE, no_landmarks)
             ELSE Scan_AnyPeer(self, Tail(ids), alone, no_landmarks)

\* the scan of update over all_agents+landmarks: << alone, no_landmarks >>
RECURSIVE Scan(_, _, _, _)
Scan(self, ids, alone, no_landmarks) ==
    IF ids = << >> THEN << alone, no_landmarks >>
    ELSE LET other == ag[Head(ids)]
             near == Dist2(self.real, other.real) <= Lim(other) * Lim(other)
         IN  IF other.id = self.id THEN Scan(self, Tail(ids), alone, no_landmarks)
             ELSE IF near /\ other.is_landmark THEN Scan(self, Tail(ids), alone, FALSE)
             ELSE IF near THEN Scan(self, Tail(ids), FALSE, no_landmarks)
             ELSE Scan(self, Tail(ids), alone, no_landmarks)

\* (mutant) a peer in range does not stop the drift
Drifting_NotAlone(cover, alone) == cover /\ cfg.drift_model

\* whether update injects drift and heading noise this tick
Drifting(cover, alone) == cover /\ alone /\ cfg.drift_model

\* (mutant) the drift is as large as the distance moved, whatever k
DriftMag_Unscaled(moved_dist, k) == moved_dist

\* the magnitude of the drift: the distance moved this tick scaled by k
DriftMag(moved_dist, k) == moved_dist * k

\* MOTION of update, from the scan to the logs
Motion(self, w, target, r) ==
    LET cover == w.position_in_line = LAST
        scan == Scan(self, agents \o landmarks, TRUE, TRUE)
        alone == scan[1]
        no_landmarks == scan[2]
        stepped == AuvUpdate(self.internal, target, self.speed, cfg.dt)
        moved_dist == stepped.moved
        drifting == Drifting(cover, alone)
        drift_mag == DriftMag(moved_dist, cfg.k)
        angle == DriftSample(self.real.x, self.real.y)
        drift_x == IF drifting THEN drift_mag * Cos(angle) ELSE 0
        drift_y == IF drifting THEN drift_mag * Sin(angle) ELSE 0
        heading_noise == IF drifting THEN RngDraw(r) * cfg.heading_noise ELSE 0
        real == RealAuvUpdate(self.real, stepped.turn, moved_dist, drift_x, drift_y)
        headed == [stepped.pose EXCEPT !.h = (real.h + heading_noise) % 4]
        internal == IF ~no_landmarks THEN real ELSE headed
    IN  [self |-> [self EXCEPT
                     !.real = real,
                     !.internal = internal,
                     !.odom = Append(@, internal),
                     !.real_errors = Append(@, << self.time, Dist2(real, internal) >>),
                     !.real_moved_dists = Append(@, << self.time, moved_dist >>)],
         rng |-> IF drifting THEN RngNext(r) ELSE r,
         cover |-> cover, alone |-> alone, no_landmarks |-> no_landmarks,
         moved |-> moved_dist, drift_x |-> drift_x, drift_y |-> drift_y,
         heading_noise |-> heading_noise]

\* (mutant) update goes on for a landmark
Passive_Never(self) == FALSE

\* the test of update's first return: a landmark is completely passive
Passive(self) == self.is_landmark

\* (mutant) an agent whose plan is exhausted still logs its pose each tick
Finished_Logged(self) ==
    [self EXCEPT !.odom = Append(@, self.internal),
                 !.real_errors = Append(@, << self.time, Dist2(self.real, self.internal) >>),
                 !.real_moved_dists = Append(@, << self.time, 0 >>)]

\* update's return for an agent whose plan is exhausted: the call leaves
\* the agent as it is
Finished(self) == self

\* Agent.update(dt, all_agents, landmarks) on agent id, where the planner, if
\* invoked, samples the path short of its end or not: the agent, the plan,
\* the generator and the observation after the call
update(id, short) ==
    LET self == [ag[id] EXCEPT !.time = @ + cfg.dt]
        e0 == EvNone("update", id)
    IN  IF Passive(self)
        THEN [self |-> self, mp |-> mp, rng |-> rng,
              ev |-> [e0 EXCEPT !.returned = "landmark"]]
        ELSE LET sync == MissionSync(self, mp)
                 e1 == [e0 EXCEPT !.wp0 = sync.wp0, !.wp = sync.wp,
                                  !.at_target = sync.at_target,
                                  !.advanced = sync.advanced,
                                  !.waited = sync.waited, !.dist2 = sync.dist2]
             IN  IF sync.wp = NoWp
                 THEN [self |-> Finished(sync.self), mp |-> sync.mp, rng |-> rng,
                       ev |-> [e1 EXCEPT !.returned = "done"]]
                 ELSE LET w == sync.mp.wps[id][sync.wp]
                          path == PathPlanning(sync.self, w, sync.dist2, short)
                          mot == Motion(path.self, w, path.target, rng)
                      IN  [self |-> mot.self, mp |-> sync.mp, rng |-> mot.rng,
                           ev |-> [e1 EXCEPT !.returned = "motion",
                                     !.planned = path.planned, !.target = path.target,
                                     !.cover = mot.cover, !.alone = mot.alone,
                                     !.no_landmarks = mot.no_landmarks,
                                     !.moved = mot.moved,
                                     !.drift_x = mot.drift_x, !.drift_y = mot.drift_y,
                                     !.heading_noise = mot.heading_noise]]

\* ------------------------------------------------------- Agent.communicate
\* the peers of the for loop of communicate that are measured: every agent of
\* all_agents but self within its limit (none unless comm_range is positive)
RECURSIVE InRange(_, _)
InRange(self, ids) ==
    IF ids = << >> THEN << >>
    ELSE LET other == ag[Head(ids)]
             rest == InRange(self, Tail(ids))
         IN  IF other.id # self.id
                /\ Dist2(self.real, other.real) <= Lim(other) * Lim(other)
             THEN << other.id >> \o rest
             ELSE rest

\* (mutant) the loop runs whatever the communication range
Measured_Unguarded(self, ids) == InRange(self, ids)

Measured(self, ids) == IF cfg.comm_range > 0 THEN InRange(self, ids) ELSE << >>

\* (mutant) any connection marks the current waypoint
CloseEnough_Always(pose, w) == TRUE

\* the gate of the rendezvous flag: the belief pose is within the waypoint's
\* uncertainty radius of the waypoint
CloseEnough(pose, w) ==
    Dist2(pose, w.pose) <= w.uncertainty_radius * w.uncertainty_radius

\* (mutant) the status test is made from the second entry on
StatusChanged_FromSecond(trace) ==
    Len(trace) > 1 /\ trace[Len(trace)] # trace[Len(trace) - 1]

\* (mutant) every connected tick counts as a change
StatusChanged_WhileConnected(trace) ==
    Len(trace) > 2 /\ trace[Len(trace)]

\* the connection status has changed
StatusChanged(trace) ==
    Len(trace) > 2 /\ trace[Len(trace)] # trace[Len(trace) - 1]

\* (mutant) the returned pose is taken over whatever the success flag
TakeCorrection_Always(success) == TRUE

\* whether the optimized pose is taken over
TakeCorrection(success) == success

\* Agent.communicate(all_agents, summarize_pg) on agent id, where the
\* estimator's optimize, if invoked, returns (success, corrected)
communicate(id, success, corrected) ==
    LET self == ag[id]
        peers == Measured(self, agents \o landmarks)
        recorded == Len(peers) > 0
        heard == [self EXCEPT
                    !.measured = @ \o peers,
                    !.received_data = @ \o [j \in 1 .. Len(peers) |-> self.time],
                    !.connection_trace = Append(@, recorded)]
        c == get_current_wp(mp, id)
        flag == recorded /\ c # NoWp /\ CloseEnough(self.internal, mp.wps[id][c])
        m1 == IF flag THEN [mp EXCEPT !.wps[id][c].rendezvous_happened = TRUE] ELSE mp
        optimize == StatusChanged(heard.connection_trace)
        counted == IF optimize THEN [heard EXCEPT !.optimize_calls = @ + 1] ELSE heard
        snapped == IF optimize /\ TakeCorrection(success)
                   THEN [counted EXCEPT !.internal = corrected,
                                        !.viz_optim_points = Append(@, corrected),
                                        !.current_dubins_points = << >>]
                   ELSE counted
    IN  [self |-> snapped, mp |-> m1,
         ev |-> [EvNone("communicate", id) EXCEPT
                   !.recorded = recorded, !.flagged = flag, !.wp = c,
                   !.optimized = optimize, !.success = optimize /\ success]]

\* what the estimator may return as the corrected current pose: the true pose,
\* or a pose half a metre off it
Corrections(self) == { self.real, [self.real EXCEPT !.x = @ + Half] }

\* ------------------------------------------------------- RunnableMission
\* RunnableMission.__init__: one agent per timed path, half a metre behind
\* its first waypoint
NewAgent(id, pose, speed) ==
    [id |-> id, is_landmark |-> speed = 0, speed |-> speed,
     real |-> pose, internal |-> pose, time |-> 0,
     connection_trace |-> << >>, received_data |-> << 0 >>,
     real_errors |-> << >>, real_moved_dists |-> << >>,
     waypoint_reaching_times |-> << >>, current_dubins_points |-> << >>,
     viz_plan_points |-> << >>, viz_optim_points |-> << >>,
     viz_waited_points |-> << >>,
     odom |-> IF speed = 0 THEN << pose >> ELSE << >>,
     measured |-> << >>, optimize_calls |-> 0]

MissionAgent(id, path, speed) ==
    LET w == path[1].pose
    IN  NewAgent(id, Pose(w.x - Half * Cos(w.h), w.y - Half * Sin(w.h), w.h), speed)

\* RunnableMission.add_landmarks: agents that never move
LandmarkAgent(j, pos) == NewAgent(LandmarkId(j - 1), Pose(pos[1], pos[2], 0), 0)

\* RunnableMission.__init__: no results and no error series yet
NoResults ==
    [raised |-> FALSE, all_translational_errs |-> << >>,
     final_translational_errors |-> << >>, total_agent_time |-> 0,
     plan_is_complete |-> FALSE, set |-> FALSE]

\* np.cumsum(dists)
RECURSIVE CumSum(_, _)
CumSum(dists, sofar) ==
    IF dists = << >> THEN << >>
    ELSE << sofar + Head(dists) >> \o CumSum(Tail(dists), sofar + Head(dists))

\* times, values = zip(*log): unpacking the two tuples fails on an empty log
Unzips(log) == Len(log) > 0

\* the for loop of calculate_stats over self.agents: the error series of the
\* agents gone through, up to the first agent whose logs do not unzip
RECURSIVE StatsLoop(_, _)
StatsLoop(ids, series) ==
    IF ids = << >> THEN [raised |-> FALSE, series |-> series]
    ELSE LET agent == ag[Head(ids)]
         IN  IF ~Unzips(agent.real_errors) \/ ~Unzips(agent.real_moved_dists)
             THEN [raised |-> TRUE, series |-> series]
             ELSE LET times == [j \in 1 .. Len(agent.real_errors) |-> agent.real_errors[j][1]]
                      errs == [j \in 1 .. Len(agent.real_errors) |-> agent.real_errors[j][2]]
                      dists == [j \in 1 .. Len(agent.real_moved_dists) |->
                                  agent.real_moved_dists[j][2]]
                      distances_traveled == CumSum(dists, 0)
                  IN  StatsLoop(Tail(ids),
                                Append(series,
                                       [times |-> times,
                                        errs |-> [j \in 1 .. Len(errs) |->
                                                    << errs[j], distances_traveled[j] >>]]))

\* RunnableMission.calculate_stats: the results of the run, or raised where
\* the code raises; each error is kept as the pair it is the quotient of
calculate_stats ==
    LET loop == StatsLoop(agents, << >>)
    IN  IF loop.raised
        THEN [NoResults EXCEPT !.raised = TRUE, !.all_translational_errs = loop.series]
        ELSE [raised |-> FALSE, all_translational_errs |-> loop.series,
              final_translational_errors |->
                  [j \in 1 .. NumAgents |->
                     ag[j - 1].real_errors[Len(ag[j - 1].real_errors)][2]],
              total_agent_time |-> NumAgents * last_planned_time(mp),
              plan_is_complete |-> is_complete(mp), set |-> TRUE]

Configs ==
    [speed : {0, 2}, comm_range : {0, 12}, landmark_range : {4},
     k : {0, 1}, heading_noise : {0, 1}, drift_model : BOOLEAN, field : {0},
     dt : 1 .. MaxDt, seed : 0 .. MaxSeed, plan : Plans,
     landmarks : { << >>, << << 8, 3 >> >> }]

Init ==
    /\ cfg \in Configs
    /\ \E c0 \in {0, 1} :
         mp = [wps |-> [id \in AgentIds |-> TimedPaths(cfg.plan)[id + 1]],
               cursor |-> [id \in AgentIds |-> c0]]
    /\ ag = [id \in AgentIds \cup {LandmarkId(j - 1) : j \in 1 .. Len(cfg.landmarks)} |->
               IF id \in AgentIds
               THEN MissionAgent(id, TimedPaths(cfg.plan)[id + 1], cfg.speed)
               ELSE LandmarkAgent(0 - id, cfg.landmarks[0 - id])]
    /\ rng = cfg.seed
    /\ step = 0
    /\ pc = "top"
    /\ i = 0
    /\ ev = EvNone("init", 0)
    /\ results = NoResults

\* (mutant) one loop that updates an agent and lets it communicate at once
AfterCall_Interleaved(phase, j) ==
    IF phase = "update" THEN << "communicate", j >>
    ELSE IF j < Len(agents) THEN << "update", j + 1 >>
    ELSE << "check", 0 >>

\* where run goes after the call on agents[j] in a phase
AfterCall(phase, j) ==
    IF j < Len(agents) THEN << phase, j + 1 >>
    ELSE IF phase = "update" THEN << "communicate", 1 >>
    ELSE << "check", 0 >>

\* (mutant) the plan's completion does not end the run
Stop_TimeOnly(m, s) == s * cfg.dt >= last_planned_time(m)

\* (mutant) the last planned time does not end the run
Stop_CompleteOnly(m, s) == is_complete(m)

\* whether run leaves its loop at the end of a tick
Stop(m, s) == is_complete(m) \/ s * cfg.dt >= last_planned_time(m)

\* run: step += 1, and the first for loop begins
LoopTop ==
    /\ pc = "top"
    /\ step' = step + 1
    /\ pc' = "update"
    /\ i' = 1
    /\ ev' = EvNone("top", 0)
    /\ UNCHANGED << cfg, mp, ag, rng, results >>

\* run: agent.update(dt, agents, landmarks) for the next agent
Update ==
    /\ pc = "update"
    /\ \E short \in BOOLEAN :
         LET r == update(agents[i], short)
             next == AfterCall(pc, i)
         IN  /\ ag' = [ag EXCEPT ![agents[i]] = r.self]
             /\ mp' = r.mp
             /\ rng' = r.rng
             /\ ev' = r.ev
             /\ pc' = next[1]
             /\ i' = next[2]
    /\ UNCHANGED << cfg, step, results >>

\* run: agent.communicate(agents+landmarks, use_summary) for the next agent
Communicate ==
    /\ pc = "communicate"
    /\ \E success \in BOOLEAN : \E corrected \in Corrections(ag[agents[i]]) :
         LET r == communicate(agents[i], success, corrected)
             next == AfterCall(pc, i)
         IN  /\ ag' = [ag EXCEPT ![agents[i]] = r.self]
             /\ mp' = r.mp
             /\ ev' = r.ev
             /\ pc' = next[1]
             /\ i' = next[2]
    /\ UNCHANGED << cfg, rng, step, results >>

\* run: the two break tests after both loops
Check ==
    /\ pc = "check"
    /\ pc' = IF Stop(mp, step) THEN "done" ELSE "top"
    /\ ev' = EvNone("check", 0)
    /\ UNCHANGED << cfg, mp, ag, rng, step, i, results >>

\* run: self.calculate_stats() once the loop is left; an exception in it ends
\* the run without results
CalculateStats ==
    /\ pc = "done"
    /\ results' = calculate_stats
    /\ pc' = IF results'.raised THEN "raised" ELSE "complete"
    /\ ev' = EvNone("calculate_stats", 0)
    /\ UNCHANGED << cfg, mp, ag, rng, step, i >>

Next == LoopTop \/ Update \/ Communicate \/ Check \/ CalculateStats

Spec == Init /\ [][Next]_vars

\* ================================================================== claims
\* the number of connectivity transitions of a trace that are checked: the
\* pairs of consecutive entries that differ, from the third entry on
Transitions(trace) ==
    Cardinality({ j \in 3 .. Len(trace) : trace[j] # trace[j - 1] })

\* C1: for every agent the estimator's optimize has been invoked exactly once
\* for each connectivity transition of its trace (consecutive entries that
\* differ) and on no other tick, where no transition is checked before the
\* trace holds 3 entries.
C1_OptimizeOncePerTransition ==
    \A a \in AgentIds : ag[a].optimize_calls = Transitions(ag[a].connection_trace)

\* a rising and a falling edge were both counted, with steady ticks between
C1_Witness ==
    \E a \in AgentIds :
        LET t == ag[a].connection_trace
        IN  /\ ag[a].optimize_calls = 2
            /\ \E j \in 2 .. Len(t) : t[j] /\ t[j - 1]
            /\ \E j \in 2 .. Len(t) : ~t[j] /\ ~t[j - 1]

\* the trace is a run of n >= 1 false entries, a single true, and at least
\* one false entry: n, or 0 when the trace has another shape
FalseRunBeforeSingleTrue(t) ==
    IF /\ Len(t) >= 3
       /\ \E n \in 1 .. (Len(t) - 2) :
             \A j \in 1 .. Len(t) : t[j] <=> (j = n + 1)
    THEN CHOOSE n \in 1 .. (Len(t) - 2) : \A j \in 1 .. Len(t) : t[j] <=> (j = n + 1)
    ELSE 0

\* the scenario of C2: two mission agents and no landmark, out of
\* communication range of each other at the start
StartApart ==
    /\ cfg.landmarks = << >>
    /\ cfg.speed > 0
    /\ cfg.comm_range > 0
    /\ Dist2(MissionAgent(0, TimedPaths(cfg.plan)[1], cfg.speed).real,
             MissionAgent(1, TimedPaths(cfg.plan)[2], cfg.speed).real)
          > cfg.comm_range * cfg.comm_range

\* C2 (as claimed): two agents that start out of range, are in range for one
\* tick and out of range afterwards have each invoked optimize exactly twice.
C2_Original_TwoOptimizeCalls ==
    StartApart =>
        \A a \in AgentIds :
            FalseRunBeforeSingleTrue(ag[a].connection_trace) >= 1
                => ag[a].optimize_calls = 2

\* C2 (amended): in that scenario each agent has invoked optimize twice when
\* the single true entry is the third or a later entry of its trace, and once
\* (on the falling edge only) when it is the second entry.
C2_OptimizeCallsOfSinglePass ==
    StartApart =>
        \A a \in AgentIds :
            LET n == FalseRunBeforeSingleTrue(ag[a].connection_trace)
            IN  /\ n >= 2 => ag[a].optimize_calls = 2
                /\ n = 1 => ag[a].optimize_calls = 1

\* both agents passed each other in one tick, the third or a later one
C2_Witness ==
    /\ StartApart
    /\ \A a \in AgentIds :
          /\ FalseRunBeforeSingleTrue(ag[a].connection_trace) >= 2
          /\ ag[a].optimize_calls = 2

\* whether agent a is within the applicable range of some other agent
Connected(a) ==
    /\ cfg.comm_range > 0
    /\ \E b \in (DOMAIN ag) \ {a} :
          LET lim == IF ag[b].is_landmark THEN cfg.landmark_range ELSE cfg.comm_range
          IN  Dist2(ag[a].real, ag[b].real) <= lim * lim

\* C3: a waypoint's rendezvous flag is set only by communicate of its agent,
\* on a tick where the agent is connected, the waypoint is its current one and
\* its belief position is within the waypoint's uncertainty radius; a
\* connection made farther away leaves every flag as it was.
C3_FlagOnlyNearWaypoint ==
    [][ /\ \A a \in AgentIds : \A j \in 1 .. Len(mp.wps[a]) :
            (~mp.wps[a][j].rendezvous_happened /\ mp'.wps[a][j].rendezvous_happened)
            => /\ pc = "communicate" /\ agents[i] = a
               /\ Connected(a)
               /\ j = mp.cursor[a]
               /\ Dist2(ag[a].internal, mp.wps[a][j].pose)
                    <= mp.wps[a][j].uncertainty_radius * mp.wps[a][j].uncertainty_radius
        /\ \A a \in AgentIds :
            LET c == mp.cursor[a]
            IN  ( /\ pc = "communicate" /\ agents[i] = a /\ Connected(a)
                  /\ c \in 1 .. Len(mp.wps[a])
                  /\ Dist2(ag[a].internal, mp.wps[a][c].pose)
                       > mp.wps[a][c].uncertainty_radius * mp.wps[a][c].uncertainty_radius )
                => mp'.wps = mp.wps
      ]_vars

\* a connection made too far from the current waypoint, after a flag was set
\* at another waypoint
C3_Witness ==
    /\ ev.op = "communicate" /\ ev.recorded /\ ~ev.flagged /\ ev.wp # NoWp
    /\ ~mp.wps[ev.agent][ev.wp].rendezvous_happened
    /\ \E a \in AgentIds : \E j \in 1 .. Len(mp.wps[a]) : mp.wps[a][j].rendezvous_happened

\* C4: update does not advance the cursor past a current waypoint whose
\* pattern index is not 1, 3 or 5 while the agent's time is less than the
\* waypoint's scheduled time, whatever its rendezvous flag; it is passed only
\* at the target and with the scheduled time reached.
C4_NoEarlySkipAtOtherIndices ==
    [][ \A a \in AgentIds :
          LET c == mp.cursor[a]
          IN  ( /\ c \in 1 .. Len(mp.wps[a])
                /\ mp.wps[a][c].idx_in_pattern \notin {1, 3, 5}
                /\ mp'.cursor[a] # c )
              => /\ pc = "update" /\ agents[i] = a
                 /\ ag'[a].time >= mp.wps[a][c].time
                 /\ Dist2(ag[a].internal, mp.wps[a][c].pose)
                      <= TargetThreshold * TargetThreshold
      ]_vars

\* an agent waited at such a waypoint although its rendezvous flag was set
C4_Witness ==
    /\ ev.op = "update" /\ ev.waited
    /\ mp.wps[ev.agent][ev.wp].rendezvous_happened
    /\ mp.wps[ev.agent][ev.wp].idx_in_pattern \notin {1, 3, 5}

\* the pose an agent was constructed at
ConstructionPose(id) ==
    IF id \in AgentIds
    THEN MissionAgent(id, TimedPaths(cfg.plan)[id + 1], cfg.speed).real
    ELSE Pose(cfg.landmarks[0 - id][1], cfg.landmarks[0 - id][2], 0)

\* C5: a landmark agent's ground-truth pose is its construction-time pose, and
\* its estimator holds exactly one odometry vertex, that of construction.
C5_LandmarkFixed ==
    \A id \in DOMAIN ag :
        ag[id].is_landmark =>
            /\ ag[id].real = ConstructionPose(id)
            /\ ag[id].odom = << ConstructionPose(id) >>

\* at the end of a run in which a landmark was measured by a mission agent
C5_Witness ==
    /\ pc = "done"
    /\ \E id \in DOMAIN ag : id < 0 /\ ag[id].is_landmark
    /\ \E a \in AgentIds : \E j \in 1 .. Len(ag[a].measured) : ag[a].measured[j] < 0

\* C6: update on a landmark agent changes only the agent's time, which grows
\* by dt: cursor, flags, both poses, queued path, estimator, logs and the
\* random generator are as before, for it and for every other agent.
C6_LandmarkUpdateOnlyTime ==
    [][ (pc = "update" /\ ag[agents[i]].is_landmark)
        => /\ ag' = [ag EXCEPT ![agents[i]].time = @ + cfg.dt]
           /\ mp' = mp
           /\ rng' = rng
      ]_vars

\* update has returned at once for a landmark agent, in a second or later tick
C6_Witness ==
    /\ ev.op = "update" /\ ev.returned = "landmark"
    /\ ag[ev.agent].is_landmark
    /\ step >= 2
    /\ ag[ev.agent].time = step * cfg.dt

\* C7: an update that reaches the motion sub-step classes the agent as not
\* alone exactly when another mission (non-landmark) agent's ground-truth
\* position is within comm_range of its own, and as near a landmark exactly
\* when a landmark's is within landmark_range: a landmark never ends alone, a
\* mission peer never makes it near a landmark.
C7_AloneIsAboutMissionPeers ==
    [][ \A a \in AgentIds :
          (pc = "update" /\ agents[i] = a /\ ev'.returned = "motion")
          => /\ ev'.alone =
                  ~ \E b \in (DOMAIN ag) \ {a} :
                      /\ ~ag[b].is_landmark
                      /\ Dist2(ag[a].real, ag[b].real) <= cfg.comm_range * cfg.comm_range
             /\ ev'.no_landmarks =
                  ~ \E b \in (DOMAIN ag) \ {a} :
                      /\ ag[b].is_landmark
                      /\ Dist2(ag[a].real, ag[b].real)
                           <= cfg.landmark_range * cfg.landmark_range
      ]_vars

\* an agent near a landmark and out of range of its mission peer was classed
\* as alone
C7_Witness ==
    /\ ev.op = "update" /\ ev.returned = "motion"
    /\ ev.alone /\ ~ev.no_landmarks
    /\ cfg.comm_range > 0

\* C8: the belief pose of an agent changes only in its own update that
\* reaches the motion sub-step and in its own communicate that detects a
\* connectivity transition and whose optimization succeeds; no other step
\* changes it.
C8_BeliefChangesOnlyInFourWays ==
    [][ \A a \in DOMAIN ag :
          ag'[a].internal # ag[a].internal
          => \/ /\ pc = "update" /\ agents[i] = a
                /\ ev'.returned = "motion"
             \/ /\ pc = "communicate" /\ agents[i] = a
                /\ Len(ag'[a].connection_trace) >= 3
                /\ ag'[a].connection_trace[Len(ag'[a].connection_trace)]
                     # ag'[a].connection_trace[Len(ag'[a].connection_trace) - 1]
                /\ ev'.success
      ]_vars

\* an optimization failed at a transition while belief and ground truth
\* differed, and the belief pose was left alone
C8_Witness ==
    /\ ev.op = "communicate" /\ ev.optimized /\ ~ev.success
    /\ ag[ev.agent].internal # ag[ev.agent].real

\* the calls made so far on a mission agent: every update adds dt to its
\* time, every communicate adds an entry to its trace
Updated(a, n) == ag[a].time = n * cfg.dt
Communicated(a, n) == Len(ag[a].connection_trace) = n

\* C9: in tick N update is called on the agents in index order, each before
\* any communicate of tick N and after every communicate of tick N-1, and
\* communicate is then called in the same order after every update of tick N;
\* so what a communicate of tick N changes is read by no update of tick N.
C9_UpdatesBeforeCommunicates ==
    [][ \A a \in AgentIds :
          /\ ag'[a].time # ag[a].time
             => /\ \A b \in AgentIds : Communicated(b, step - 1)
                /\ \A b \in AgentIds : b < a => Updated(b, step)
                /\ \A b \in AgentIds : b >= a => Updated(b, step - 1)
                /\ \A b \in AgentIds \ {a} : ag'[b] = ag[b]
          /\ ag'[a].connection_trace # ag[a].connection_trace
             => /\ \A b \in AgentIds : Updated(b, step)
                /\ \A b \in AgentIds : b < a => Communicated(b, step)
                /\ \A b \in AgentIds : b >= a => Communicated(b, step - 1)
                /\ \A b \in AgentIds \ {a} : ag'[b] = ag[b]
      ]_vars

\* an update of a later tick has used a rendezvous flag set by a communicate:
\* it left its waypoint before the scheduled time
C9_Witness ==
    /\ ev.op = "update" /\ ev.advanced /\ ev.wp0 # NoWp
    /\ ag[ev.agent].time < mp.wps[ev.agent][ev.wp0].time
    /\ mp.wps[ev.agent][ev.wp0].rendezvous_happened

\* the tick's two phases are over for every agent
TickOver == \A a \in AgentIds : Updated(a, step) /\ Communicated(a, step)

\* C10: the run is over only with a whole tick done and the plan complete or
\* step*dt at or past the last planned time; and a new tick is begun only
\* when, at the end of the tick before, neither was the case.
C10_StopsExactlyAtEndOfTick ==
    /\ pc = "done"
        => /\ TickOver
           /\ (is_complete(mp) \/ step * cfg.dt >= last_planned_time(mp))
    /\ (pc = "top" /\ step >= 1)
        => /\ TickOver
           /\ ~is_complete(mp)
           /\ step * cfg.dt < last_planned_time(mp)

\* the run ended because the plan was complete, before the last planned time
C10_Witness ==
    /\ pc = "done"
    /\ is_complete(mp)
    /\ step * cfg.dt < last_planned_time(mp)

\* C11: when the estimator's optimize fails at a connectivity transition,
\* communicate leaves the belief pose, the optimization points and the queued
\* path as they were; optimize is invoked in no other step than a
\* communicate that appends a status different from the one before it (from
\* the third entry on), so a failed call is not repeated before the next
\* transition.
C11_FailedOptimizeLeavesBelief ==
    [][\A a \in AgentIds :
         /\ (pc = "communicate" /\ agents[i] = a /\ ev'.optimized /\ ~ev'.success) =>
              /\ ag'[a].internal = ag[a].internal
              /\ ag'[a].viz_optim_points = ag[a].viz_optim_points
              /\ ag'[a].current_dubins_points = ag[a].current_dubins_points
              /\ ag'[a].optimize_calls = ag[a].optimize_calls + 1
         /\ (ag'[a].optimize_calls # ag[a].optimize_calls) =>
              /\ pc = "communicate" /\ agents[i] = a
              /\ LET t == ag'[a].connection_trace
                 IN  Len(t) > 2 /\ t[Len(t)] # t[Len(t) - 1]]_vars

\* a failed optimize of an agent that has a queued path and a belief pose off
\* its true pose
C11_Witness ==
    /\ ev.op = "communicate" /\ ev.optimized /\ ~ev.success
    /\ ag[ev.agent].current_dubins_points # << >>
    /\ ag[ev.agent].internal # ag[ev.agent].real

\* C12: once an agent's cursor is past its last waypoint, every update of the
\* agent is idle: the plan stays exhausted and nothing of the agent but its
\* clock changes (neither vehicle moves, no odometry vertex, no error sample
\* and no motion sample is added).
C12_ExhaustedAgentIsIdle ==
    [][\A a \in AgentIds :
         (pc = "update" /\ agents[i] = a /\ mp.cursor[a] > Len(mp.wps[a])) =>
            /\ ag'[a] = [ag[a] EXCEPT !.time = @ + cfg.dt]
            /\ get_current_wp(mp', a) = NoWp
            /\ mp'.wps = mp.wps
            /\ pc' \in {"update", "communicate"}]_vars

\* an update of an agent that has error samples and whose plan was exhausted
\* before the update began
C12_Witness ==
    /\ ev.op = "update" /\ ev.returned = "done" /\ ev.wp0 = NoWp
    /\ mp.cursor[ev.agent] > Len(mp.wps[ev.agent])
    /\ ag[ev.agent].real_errors # << >>

\* C13: calculate_stats at the end of a run does not fail when an agent has
\* recorded no error sample: the run ends with its results set.
C13_StatsOfAnEmptyLog ==
    (pc \in {"complete", "raised"} /\ \E a \in AgentIds : ag[a].real_errors = << >>) =>
        (pc = "complete" /\ results.set /\ ~results.raised)

\* C14: the path planning of an update, run a second time on what the first
\* run left (same belief pose, waypoint and time), plans no new path, drops
\* no further sample and steers at the same point. A path is planned only
\* when the queued path is empty, and a queued path is emptied only by an
\* update that advances the waypoint or by a communicate whose optimize
\* succeeds.
C14_PathPlanningIdempotent ==
    [][\A a \in AgentIds :
         /\ (pc = "update" /\ agents[i] = a /\ ~Passive(ag[a])) =>
              LET self == [ag[a] EXCEPT !.time = @ + cfg.dt]
                  sync == MissionSync(self, mp)
              IN  sync.wp # NoWp =>
                    \A short1, short2 \in BOOLEAN :
                       LET w == sync.mp.wps[a][sync.wp]
                           first == PathPlanning(sync.self, w, sync.dist2, short1)
                           second == PathPlanning(first.self, w, sync.dist2, short2)
                       IN  /\ second.self = first.self
                           /\ second.target = first.target
                           /\ ~second.planned
         /\ (pc = "update" /\ agents[i] = a /\ ev'.planned) =>
              ag[a].current_dubins_points = << >>
         /\ (ag[a].current_dubins_points # << >> /\ ag'[a].current_dubins_points = << >>) =>
              /\ agents[i] = a
              /\ \/ pc = "update" /\ ev'.advanced
                 \/ pc = "communicate" /\ ev'.success]_vars

\* an update that planned a path and dropped its first samples
C14_Witness ==
    /\ ev.op = "update" /\ ev.planned
    /\ Len(ag[ev.agent].current_dubins_points) > 2
    /\ ag[ev.agent].current_dubins_points[1] #
         ag[ev.agent].viz_plan_points[Len(ag[ev.agent].viz_plan_points)]

\* C15: with the drift coefficient k at 0 the drift vector handed to the real
\* vehicle is (0, 0) on every update, whatever cover, alone and the drift
\* model are.
C15_NoDriftWithoutK ==
    (cfg.k = 0 /\ ev.op = "update") => (ev.drift_x = 0 /\ ev.drift_y = 0)

\* an update with k = 0 that moved the agent while it was covering, alone and
\* under a drift model
C15_Witness ==
    /\ cfg.k = 0 /\ ev.op = "update" /\ ev.returned = "motion"
    /\ ev.cover /\ ev.alone /\ cfg.drift_model /\ ev.moved > 0

C18_ChoiceOnActiveWaypoint ==
    [][\A a \in AgentIds :
         (pc = "update" /\ agents[i] = a /\ ev'.returned = "motion") =>
            LET w == mp'.wps[a][ev'.wp]
                near == Dist2(ag[a].internal, w.pose) <
                          (TargetThreshold + Half) * (TargetThreshold + Half)
            IN  /\ near => (~ev'.planned /\ ev'.target = w.pose)
                /\ ~near => ag'[a].current_dubins_points # << >>]_vars

FollowsPath(a) ==
    /\ pc = "update" /\ agents[i] = a /\ ev'.returned = "motion"
    /\ ev'.dist2 >= (TargetThreshold + Half) * (TargetThreshold + Half)

C20_DriftOnlyWhenCoveringAlone ==
    (ev.op = "update" /\ ev.returned = "motion") =>
        LET a == ev.agent
            cover == mp.wps[a][ev.wp].position_in_line = LAST
        IN  ~(cover /\ ev.alone /\ cfg.drift_model) =>
               /\ ev.drift_x = 0 /\ ev.drift_y = 0 /\ ev.heading_noise = 0
               /\ ag[a].internal.h = ag[a].real.h

\* an update that moved a covering agent with a mission peer in range under
\* a drift model with k and heading noise set: no drift, belief heading true
C20_Witness ==
    /\ ev.op = "update" /\ ev.returned = "motion" /\ ev.moved > 0
    /\ ev.cover /\ ~ev.alone /\ cfg.drift_model /\ cfg.k = 1 /\ cfg.heading_noise = 1
    /\ ev.drift_x = 0 /\ ev.drift_y = 0
    /\ ag[ev.agent].internal.h = ag[ev.agent].real.h

\* C21: an update that reaches the motion part while a landmark's true
\* position is within landmark range of the agent's true position, as it is
\* before the agent moves, ends with the belief pose equal to the true pose
\* and records an error of 0 for the tick.
C21_LandmarkFix ==
    [][\A a \in AgentIds :
         (pc = "update" /\ agents[i] = a /\ ev'.returned = "motion"
            /\ \E l \in DOMAIN ag :
                  /\ l # a /\ ag[l].is_landmark
                  /\ Dist2(ag[a].real, ag[l].real) <=
                       cfg.landmark_range * cfg.landmark_range) =>
            /\ ag'[a].internal = ag'[a].real
            /\ ag'[a].real_errors =
                 Append(ag[a].real_errors, << ag'[a].time, 0 >>)]_vars

\* an update near a landmark in which the agent drifted, or whose belief was
\* off the true pose before: the belief pose is the true pose after it
C21_Witness ==
    /\ ev.op = "update" /\ ev.returned = "motion" /\ ~ev.no_landmarks
    /\ ev.drift_x # 0 \/ ev.drift_y # 0
    /\ ag[ev.agent].internal = ag[ev.agent].real
    /\ Len(ag[ev.agent].real_errors) > 1

\* C22: with a communication range that is not positive, communicate measures
\* nothing and receives nothing, landmarks within landmark range included;
\* every entry of every connection trace is false, optimize is never invoked
\* and no rendezvous flag is set.
C22_NoCommunicationWithoutRange ==
    cfg.comm_range <= 0 =>
        /\ \A a \in DOMAIN ag :
              /\ ag[a].measured = << >>
              /\ ag[a].received_data = << 0 >>
              /\ \A j \in 1 .. Len(ag[a].connection_trace) : ~ag[a].connection_trace[j]
              /\ ag[a].optimize_calls = 0
              /\ ag[a].viz_optim_points = << >>
        /\ \A a \in AgentIds : \A j \in 1 .. Len(mp.wps[a]) :
              ~mp.wps[a][j].rendezvous_happened
        /\ ev.op = "communicate" => (~ev.recorded /\ ~ev.flagged /\ ~ev.optimized)

\* a third or later communicate of a moving agent with a landmark within
\* landmark range, under a communication range of 0
C22_Witness ==
    /\ cfg.comm_range = 0 /\ cfg.speed > 0 /\ ev.op = "communicate"
    /\ Len(ag[ev.agent].connection_trace) > 2
    /\ \E l \in DOMAIN ag :
          /\ l # ev.agent /\ ag[l].is_landmark
          /\ Dist2(ag[ev.agent].real, ag[l].real) <= cfg.landmark_range * cfg.landmark_range

\* some other agent, mission agent or landmark, is within the range that
\* applies to it of agent a's true position
SomeoneInRange(a) ==
    \E o \in DOMAIN ag :
       /\ o # a
       /\ Dist2(ag[a].real, ag[o].real) <=
            (IF ag[o].is_landmark THEN cfg.landmark_range * cfg.landmark_range
             ELSE cfg.comm_range * cfg.comm_range)

\* C23 (as claimed): every communicate appends exactly one entry to the
\* agent's connection trace, true if at least one peer or landmark is in
\* range and false otherwise; at the end of tick N every mission agent's
\* trace has N entries.
C23_Original_TrueWheneverInRange ==
    [][/\ \A a \in AgentIds :
            (pc = "communicate" /\ agents[i] = a) =>
               ag'[a].connection_trace =
                  Append(ag[a].connection_trace, SomeoneInRange(a))
       /\ pc' = "check" =>
            \A a \in AgentIds : Len(ag'[a].connection_trace) = step']_vars

\* C23: every communicate appends exactly one entry to the agent's
\* connection trace, true if the communication range is positive and at
\* least one peer or landmark is in range, false otherwise; no other step
\* changes a trace, and at the end of tick N every mission agent's trace has
\* N entries, exhausted agents included.
C23_OneTraceEntryPerTick ==
    [][/\ \A a \in AgentIds :
            IF pc = "communicate" /\ agents[i] = a
            THEN ag'[a].connection_trace =
                    Append(ag[a].connection_trace,
                           cfg.comm_range > 0 /\ SomeoneInRange(a))
            ELSE ag'[a].connection_trace = ag[a].connection_trace
       /\ pc' = "check" =>
            \A a \in AgentIds : Len(ag'[a].connection_trace) = step']_vars

\* the end of a tick in which an exhausted agent had both a mission agent
\* and a landmark in range: its trace has one entry per tick, the last true
C23_Witness ==
    /\ pc = "check" /\ step > 1
    /\ \E a \in AgentIds :
          /\ mp.cursor[a] > Len(mp.wps[a])
          /\ Len(ag[a].connection_trace) = step
          /\ ag[a].connection_trace[step]
          /\ \E o \in AgentIds : o # a /\
                Dist2(ag[a].real, ag[o].real) <= cfg.comm_range * cfg.comm_range
          /\ \E l \in DOMAIN ag : l # a /\ ag[l].is_landmark /\
                Dist2(ag[a].real, ag[l].real) <= cfg.landmark_range * cfg.landmark_range

\* C24: an update moves the agent's mission cursor by at most one waypoint,
\* also onto a waypoint whose time has passed already; no other step moves
\* a cursor, communicate in particular; so after N ticks a cursor is at most
\* N waypoints past where it began.
C24_CursorAtMostOnePerTick ==
    [][\A a \in AgentIds :
         /\ mp'.cursor[a] \in {mp.cursor[a], mp.cursor[a] + 1}
         /\ mp'.cursor[a] # mp.cursor[a] => (pc = "update" /\ agents[i] = a)
         /\ mp'.cursor[a] <= step' + 1]_vars

\* an update that advanced the cursor onto a waypoint whose time the agent's
\* clock has reached already
C24_Witness ==
    /\ ev.op = "update" /\ ev.advanced /\ ev.wp # NoWp
    /\ mp.cursor[ev.agent] = ev.wp0 + 1
    /\ ag[ev.agent].time >= mp.wps[ev.agent][ev.wp].time

\* ceil(T / dt) for the last planned time T of the plan
CeilTicks == (last_planned_time(mp) + cfg.dt - 1) \div cfg.dt

\* C25: run never begins more ticks than ceil(T / dt), or one when that is
\* less than one, whether or not the plan is ever complete; and when it has
\* left its loop at least one tick is over, in which every mission agent has
\* been updated and has communicated.
C25_RunEndsByLastPlannedTime ==
    /\ step <= (IF CeilTicks > 1 THEN CeilTicks ELSE 1)
    /\ pc \in {"done", "complete", "raised"} =>
          /\ step >= 1
          /\ \A a \in AgentIds :
                /\ ag[a].time = step * cfg.dt
                /\ Len(ag[a].connection_trace) = step

\* a run that has left its loop at tick ceil(T / dt) with the plan not
\* complete
C25_Witness ==
    /\ pc = "done" /\ ~is_complete(mp)
    /\ last_planned_time(mp) > 0 /\ step = CeilTicks

\* C26: no true pose changes during the communicate phase, so connectivity
\* between mission agents is symmetric whatever the order of the calls: at
\* the end of tick N, two mission agents within communication range of each
\* other both have true as entry N of their traces.
C26_ConnectivitySymmetric ==
    [][/\ pc = "communicate" => \A a \in DOMAIN ag : ag'[a].real = ag[a].real
       /\ pc' = "check" =>
            \A a, b \in AgentIds :
               (/\ a # b /\ cfg.comm_range > 0
                /\ ~ag'[a].is_landmark /\ ~ag'[b].is_landmark
                /\ Dist2(ag'[a].real, ag'[b].real) <= cfg.comm_range * cfg.comm_range) =>
                  /\ ag'[a].connection_trace[step']
                  /\ ag'[b].connection_trace[step']]_vars

\* the end of a tick in which two moving mission agents came within range of
\* each other: both traces end false, true
C26_Witness ==
    /\ pc = "check" /\ step > 1 /\ cfg.speed > 0 /\ cfg.comm_range > 0
    /\ Dist2(ag[0].real, ag[1].real) <= cfg.comm_range * cfg.comm_range
    /\ \A a \in AgentIds :
          /\ Len(ag[a].connection_trace) = step
          /\ ag[a].connection_trace[step]
          /\ ~ag[a].connection_trace[step - 1]

====
